---- MODULE Spec2Model ----
(***************************************************************************)
(* A model of parsley-rs: the parser combinators over a TokenIter          *)
(* (src/parsing/combinators.rs, src/lexical/token.rs) and the lexer's      *)
(* tokenizer dispatch (src/lexical/lexer.rs).                              *)
(***************************************************************************)
EXTENDS Integers, Sequences, FiniteSets, TLC

(* Option<T>: None is the empty sequence, Some(x) the one-element one. *)
None == <<>>
Some(x) == <<x>>

(* let v = ...; Op(v) *)
Bind(v, Op(_)) == Op(v)

(***************************************************************************)
(* Bounds and input alphabets                                              *)
(***************************************************************************)
MaxTokens == 3

(* The concrete TokenValue types a token vector may hold. *)
TokenTypes == {"A", "B", "EOF"}

(* Token<T>: its type T and its internal_value (distinct per token). *)
TokenVecs ==
    UNION { { [i \in 1..n |-> [ty |-> f[i], internal_value |-> i]] :
                f \in [1..n -> TokenTypes] } : n \in 0..MaxTokens }

(***************************************************************************)
(* TokenIter (src/lexical/token.rs)                                        *)
(***************************************************************************)
TokenIterNew(v) == [tokens |-> v, last_node |-> None]

(* TokenIter::push_front *)
push_front(self, node) == [self EXCEPT !.tokens = <<node>> \o @]

(* Iterator::next: last_node := front (None when empty), then pop_front. *)
TokenIterNext(self) ==
    LET front == IF self.tokens = <<>> THEN None ELSE Some(Head(self.tokens))
    IN  [item |-> front,
         self |-> [tokens    |-> IF self.tokens = <<>> THEN <<>>
                                 ELSE Tail(self.tokens),
                   last_node |-> front]]

(***************************************************************************)
(* Node (src/parsing/node.rs) and ParserResult                             *)
(***************************************************************************)
Node(ty, value, children) == [ty |-> ty, value |-> value, children |-> children]

NodeEmpty(ty) == Node(ty, None, <<>>)

(* A ParserResult together with the state the shared iterator is left in   *)
(* and the record of the sub-parser calls the closure made.                *)
Ok(node, tokens, calls) ==
    [ok |-> TRUE, node |-> Some(node), err |-> "", tokens |-> tokens, calls |-> calls]

Err(msg, tokens, calls) ==
    [ok |-> FALSE, node |-> None, err |-> msg, tokens |-> tokens, calls |-> calls]

(* One call of a sub-parser: which one, on which iterator state, outcome.  *)
Call(role, parser, start, r) ==
    [role |-> role, parser |-> parser, start |-> start, ok |-> r.ok]

(***************************************************************************)
(* Parser builders (src/parsing/combinators.rs)                            *)
(***************************************************************************)
token(ty, project) == [k |-> "token", ty |-> ty, project |-> project]
sequence(parsers) == [k |-> "sequence", parsers |-> parsers]
any_of(parsers) == [k |-> "any_of", parsers |-> parsers]
repeated(element, separator) ==
    [k |-> "repeated", element |-> element, separator |-> separator]
eof == token("EOF", "empty")
nothing == [k |-> "nothing"]
(* flatten::<T>(sequence): ty is the type T. *)
flatten(ty, parser) == [k |-> "flatten", ty |-> ty, sequence |-> parser]

(* The `parser: fn(Token<T>) -> ParserResult` handed to token: it builds a *)
(* node carrying the token's value, an empty node (as eof does), an empty  *)
(* node of the token's own type (Node::<T>::empty()), or fails.            *)
Project(project, value, tokens) ==
    CASE project = "value" ->
            Ok(Node(value.ty, Some(value.internal_value), <<>>), tokens, <<>>)
      [] project = "empty" -> Ok(NodeEmpty("NoValue"), tokens, <<>>)
      [] project = "novalue" -> Ok(NodeEmpty(value.ty), tokens, <<>>)
      [] OTHER -> Err("project", tokens, <<>>)

(* The closure returned by token. *)
RunToken(p, tokens) ==
    LET n == TokenIterNext(tokens)
    IN  IF n.item = None
        THEN Err("No next token!", n.self, <<>>)
        ELSE IF n.item[1].ty = p.ty
             THEN Project(p.project, n.item[1], n.self)
             ELSE Err("Token type does not match what is expected!", n.self, <<>>)

(* The closure returned by nothing. *)
RunNothing(tokens) == Ok(NodeEmpty("NoValue"), tokens, <<>>)

(* A clone that rebuilds the iterator from its queue alone.                 *)
create_local_new(tokens) == [tokens |-> tokens.tokens, last_node |-> None]

(* any_of: create_local clones the caller's TokenIter. *)
create_local(tokens) == tokens

(* any_of, line 150: after a failed alternative the snapshot is re-made.   *)
AnyOfRetryKeep(tokens, local_tokens) == local_tokens
AnyOfRetry(tokens, local_tokens) == create_local(tokens)

(* any_of, lines 142-144: tokens.replace(local_tokens.take()).             *)
AnyOfCommitSkip(tokens, local_tokens) == tokens
AnyOfCommit(tokens, local_tokens) == local_tokens

(* repeated, lines 182-185: the first element failed.                      *)
RepeatedFirstFailOk(e, calls) == Ok(NodeEmpty("NoValue"), e.tokens, calls)
RepeatedFirstFail(e, calls) ==
    Err("Failed to tokenize parse element", e.tokens, calls)

(* repeated, lines 192-195: no element after a matched separator.          *)
RepeatedDanglingOk(e, elements, calls) ==
    Ok(Node("NoValue", None, elements), e.tokens, calls)
RepeatedDangling(e, elements, calls) ==
    Err("Failed to parse repeated element", e.tokens, calls)

(* repeated, lines 213-218: the aggregate node of the matched elements.    *)
RepeatedAggregateDropFirst(elements) ==
    Node("NoValue", None, IF elements = <<>> THEN <<>> ELSE Tail(elements))
RepeatedAggregate(elements) == Node("NoValue", None, elements)

(* The type Vec<T> of the value a flattened node carries. *)
VecOf(ty) ==
    CASE ty = "A" -> "Vec<A>"
      [] ty = "B" -> "Vec<B>"
      [] OTHER -> "Vec<NoValue>"

(* GetAnyNodeValue::value_mut::<T>: downcast_mut::<Node<T>>()              *)
value_mut_any(node, ty) == Some(node)
value_mut(node, ty) == IF node.ty = ty THEN Some(node) ELSE None

(* Option::take on a node's value: what is left, and what is returned.     *)
OptionTakeCopy(value) == [self |-> value, ret |-> value]
OptionTake(value) == [self |-> None, ret |-> value]

(* flatten, line 94: items.push(value) *)
FlattenPushFront(items, value) == <<value>> \o items
FlattenPush(items, value) == Append(items, value)

(* flatten, lines 88-100: the loop over the children; it returns the items *)
(* and the children as the loop leaves them.                               *)
RECURSIVE FlattenLoop(_, _, _, _)
FlattenLoop(ty, children, i, items) ==
    IF i > Len(children)
    THEN [ok |-> TRUE, items |-> items, children |-> children]
    ELSE IF value_mut(children[i], ty) # None
    THEN Bind(OptionTake(children[i].value), LAMBDA t :
             FlattenLoop(ty, [children EXCEPT ![i].value = t.self], i + 1,
                         IF t.ret # None THEN FlattenPush(items, t.ret[1])
                         ELSE items))
    ELSE [ok |-> FALSE, items |-> items, children |-> children]

RECURSIVE Run(_, _)
RECURSIVE SequenceLoop(_, _, _, _, _)
RECURSIVE AnyOfLoop(_, _, _, _, _)
RECURSIVE RepeatedSepLoop(_, _, _, _, _)
RECURSIVE RepeatedLoop(_, _, _, _)

(* sequence: for parser in &parsers { let node = parser(tokens)?; ... }    *)
SequenceLoop(parsers, i, tokens, results, calls) ==
    IF i > Len(parsers)
    THEN Ok(Node("NoValue", None, results), tokens, calls)
    ELSE LET r == Run(parsers[i], tokens)
             c == Append(calls, Call("step", parsers[i], tokens, r))
         IN  IF r.ok
             THEN SequenceLoop(parsers, i + 1, r.tokens,
                               Append(results, r.node[1]), c)
             ELSE Err(r.err, r.tokens, c)

RunSequence(p, tokens) == SequenceLoop(p.parsers, 1, tokens, <<>>, <<>>)

(* any_of with `?` on the alternative instead of `if let Ok`.              *)
AnyOfLoopQuestionMark(parsers, i, tokens, local_tokens, calls) ==
    LET r == Run(parsers[i], local_tokens)
        c == Append(calls, Call("alternative", parsers[i], local_tokens, r))
    IN  IF r.ok
        THEN Ok(r.node[1], AnyOfCommit(tokens, r.tokens), c)
        ELSE Err(r.err, tokens, c)

(* any_of: for parser in &parsers { if let Ok(node) = parser(local) ... }  *)
AnyOfLoop(parsers, i, tokens, local_tokens, calls) ==
    IF i > Len(parsers)
    THEN Err("None of the parsers were able to conclude successfully!",
             tokens, calls)
    ELSE LET r == Run(parsers[i], local_tokens)
             c == Append(calls, Call("alternative", parsers[i], local_tokens, r))
         IN  IF r.ok
             THEN Ok(r.node[1], AnyOfCommit(tokens, r.tokens), c)
             ELSE AnyOfLoop(parsers, i + 1, tokens,
                            AnyOfRetry(tokens, r.tokens), c)

RunAnyOf(p, tokens) ==
    AnyOfLoop(p.parsers, 1, tokens, create_local(tokens), <<>>)

(* repeated with a separator: while let Ok(_) = separator(tokens) { ... }  *)
RepeatedSepLoop(element, separator, tokens, elements, calls) ==
    LET s  == Run(separator, tokens)
        c1 == Append(calls, Call("separator", separator, tokens, s))
    IN  IF ~s.ok
        THEN Ok(RepeatedAggregate(elements), s.tokens, c1)
        ELSE LET e  == Run(element, s.tokens)
                 c2 == Append(c1, Call("element", element, s.tokens, e))
             IN  IF e.ok
                 THEN RepeatedSepLoop(element, separator, e.tokens,
                                      Append(elements, e.node[1]), c2)
                 ELSE RepeatedDangling(e, elements, c2)

(* repeated without a separator, `if let` in place of `while let`.         *)
RepeatedLoopOnce(element, tokens, elements, calls) ==
    LET e == Run(element, tokens)
        c == Append(calls, Call("element", element, tokens, e))
    IN  IF e.ok
        THEN Ok(RepeatedAggregate(Append(elements, e.node[1])), e.tokens, c)
        ELSE Ok(RepeatedAggregate(elements), e.tokens, c)

(* repeated without a separator: while let Ok(node) = element(tokens)      *)
RepeatedLoop(element, tokens, elements, calls) ==
    LET e == Run(element, tokens)
        c == Append(calls, Call("element", element, tokens, e))
    IN  IF e.ok
        THEN RepeatedLoop(element, e.tokens, Append(elements, e.node[1]), c)
        ELSE Ok(RepeatedAggregate(elements), e.tokens, c)

RunRepeated(p, tokens) ==
    IF p.separator # None
    THEN LET e == Run(p.element, tokens)
             c == <<Call("element", p.element, tokens, e)>>
         IN  IF e.ok
             THEN RepeatedSepLoop(p.element, p.separator[1], e.tokens,
                                  <<e.node[1]>>, c)
             ELSE RepeatedFirstFail(e, c)
    ELSE RepeatedLoop(p.element, tokens, <<>>, <<>>)

(* The closure returned by flatten. *)
RunFlatten(p, tokens) ==
    Bind(Run(p.sequence, tokens), LAMBDA r :
        IF ~r.ok
        THEN Err(r.err, r.tokens, <<Call("sequence", p.sequence, tokens, r)>>)
        ELSE Bind(FlattenLoop(p.ty, r.node[1].children, 1, <<>>), LAMBDA f :
            IF f.ok
            THEN Ok(Node(VecOf(p.ty), Some(f.items), <<>>), r.tokens,
                    <<Call("sequence", p.sequence, tokens, r)>>)
            ELSE Err("Failed when flattening, not all children match the provided type.",
                     r.tokens, <<Call("sequence", p.sequence, tokens, r)>>)))

(* Calling a SharedParserFn on the shared iterator. *)
Run(p, tokens) ==
    CASE p.k = "token"    -> RunToken(p, tokens)
      [] p.k = "sequence" -> RunSequence(p, tokens)
      [] p.k = "any_of"   -> RunAnyOf(p, tokens)
      [] p.k = "repeated" -> RunRepeated(p, tokens)
      [] p.k = "flatten"  -> RunFlatten(p, tokens)
      [] OTHER            -> RunNothing(tokens)

(***************************************************************************)
(* TreeBuilder (src/parsing/tree_builder.rs)                               *)
(***************************************************************************)
TreeBuilderNew(root_parser) == [root_parser |-> root_parser]

(* parse without the check of the remaining tokens. *)
TreeBuilderParseUnchecked(self, v) == Run(self.root_parser, TokenIterNew(v))

(* parse with `?` on the root parser's result before the check.           *)
TreeBuilderParseErrFirst(self, v) ==
    Bind(Run(self.root_parser, TokenIterNew(v)), LAMBDA r :
        IF ~r.ok THEN r
        ELSE IF Len(r.tokens.tokens) > 0
        THEN Err("Unhandled Tokens!", r.tokens, r.calls)
        ELSE r)

(* TreeBuilder::parse on the token vector v taken from the lexer. *)
TreeBuilderParse(self, v) ==
    Bind(Run(self.root_parser, TokenIterNew(v)), LAMBDA r :
        IF Len(r.tokens.tokens) > 0
        THEN Err("Unhandled Tokens!", r.tokens, r.calls)
        ELSE r)

(***************************************************************************)
(* The parsers the model composes                                          *)
(***************************************************************************)
Leaves ==
    {token("A", "value"), token("B", "value"), token("A", "err"), eof, nothing}

(* Leaves that consume a token whenever they succeed. *)
Consuming == Leaves \ {nothing}

Sequences == {sequence(<<a, b>>) : a \in Leaves, b \in Leaves}
Choices == {any_of(<<a, b>>) : a \in Leaves, b \in Leaves}
Repetitions ==
    {repeated(e, s) : e \in Consuming, s \in {None} \cup {Some(x) : x \in Leaves}}

Nested ==
    {any_of(<<a, b>>) : a \in Sequences \cup Repetitions,
                        b \in {token("A", "value"), token("B", "value"), nothing}}

(* The parsers flatten is applied to: sequences of two and three parsers,  *)
(* repetitions, and a parser whose node has no children.                   *)
FlattenLeaves ==
    {token("A", "value"), token("B", "value"), token("A", "novalue"), eof}

Flattened ==
    {sequence(<<a, b>>) : a \in FlattenLeaves, b \in FlattenLeaves}
        \cup {sequence(<<a, b, c>>) :
                  a \in {token("A", "value")},
                  b \in {token("A", "value"), token("A", "novalue")},
                  c \in {token("A", "value"), token("B", "value")}}
        \cup {repeated(token("A", "value"), None),
              repeated(token("A", "value"), Some(token("B", "value"))),
              token("A", "value")}

Flattens == {flatten(ty, s) : ty \in {"A", "B", "NoValue"}, s \in Flattened}

Parsers ==
    Leaves \cup Sequences \cup Choices \cup Repetitions \cup Nested
        \cup Flattens

(***************************************************************************)
(* Characters and grapheme clusters (character_stream and                  *)
(* unicode_segmentation, as used by src/lexical/stream.rs)                 *)
(***************************************************************************)
(* A char is named by a string; a grapheme (String) is a sequence of chars *)
(* "FFFD" is the replacement character, "MARK" a combining mark.           *)
Utf8Len(c) == IF c = "FFFD" THEN 3 ELSE IF c = "MARK" THEN 2 ELSE 1

(* character.to_string().bytes() *)
Utf8Bytes(c) == [j \in 1..Utf8Len(c) |-> <<c, j>>]

(* Extended grapheme cluster boundary between two adjacent chars: none     *)
(* inside CR LF and none before a combining mark that follows a non-break. *)
Break(a, b) ==
    /\ ~(a = "CR" /\ b = "LF")
    /\ ~(b = "MARK" /\ a \notin {"CR", "LF"})

(* grapheme_indices(true): the 0-based position of the second cluster.     *)
SecondGraphemePos(buffer) ==
    LET B == {i \in 1..(Len(buffer) - 1) : Break(buffer[i], buffer[i + 1])}
    IN  IF B = {} THEN None
        ELSE Some(CHOOSE i \in B : \A j \in B : i <= j)

saturating_sub(a, b) == IF a > b THEN a - b ELSE 0

(***************************************************************************)
(* Blackhole and Chars (src/lexical/stream.rs)                             *)
(***************************************************************************)
BlackholeNew(void) == [bytes |-> <<>>, void |-> void, count |-> 0]

BlackholeLen(self) == IF self.void THEN self.count ELSE Len(self.bytes)

BlackholeExtend(self, i) ==
    IF self.void THEN [self EXCEPT !.count = @ + Len(i)]
    ELSE [self EXCEPT !.bytes = @ \o i]

(* incoming: what CharacterIterator will yield, Ok(char) or Err(bytes).    *)
CharsNew(incoming, is_lossy, void) ==
    [incoming |-> incoming, is_lossy |-> is_lossy, failed_count |-> 0,
     success_count |-> 0, accumulator |-> BlackholeNew(void)]

(* Chars::next replacing every char, decoded or not, when lossy.           *)
CharsNextLossyReplaces(self) ==
    IF self.incoming = <<>> THEN [self |-> self, ret |-> None]
    ELSE
    LET start == BlackholeLen(self.accumulator)
        d     == Head(self.incoming)
        rest  == [self EXCEPT !.incoming = Tail(@)]
        c     == IF self.is_lossy \/ ~d.ok THEN "FFFD" ELSE d.character
        acc   == BlackholeExtend(self.accumulator, Utf8Bytes(c))
        end   == saturating_sub(BlackholeLen(acc), 1)
    IN  IF ~d.ok /\ ~self.is_lossy
        THEN [self |-> [rest EXCEPT !.failed_count = @ + Len(d.bytes)],
              ret  |-> Some(d)]
        ELSE [self |-> [rest EXCEPT !.accumulator = acc,
                                    !.success_count =
                                        IF d.ok THEN @ + Utf8Len(c) ELSE @,
                                    !.failed_count =
                                        IF d.ok THEN @ ELSE @ + Len(d.bytes)],
              ret  |-> Some([ok |-> TRUE, character |-> c,
                             range |-> <<start, end>>])]

(* Chars::next counting one per failed decode, not its bytes.              *)
CharsNextCountsDecodes(self) ==
    IF self.incoming = <<>> THEN [self |-> self, ret |-> None]
    ELSE
    LET start == BlackholeLen(self.accumulator)
        d     == Head(self.incoming)
        rest  == [self EXCEPT !.incoming = Tail(@)]
        c     == IF d.ok THEN d.character ELSE "FFFD"
        acc   == BlackholeExtend(self.accumulator, Utf8Bytes(c))
        end   == saturating_sub(BlackholeLen(acc), 1)
    IN  IF ~d.ok /\ ~self.is_lossy
        THEN [self |-> [rest EXCEPT !.failed_count = @ + 1], ret |-> Some(d)]
        ELSE [self |-> [rest EXCEPT !.accumulator = acc,
                                    !.success_count =
                                        IF d.ok THEN @ + Utf8Len(c) ELSE @,
                                    !.failed_count =
                                        IF d.ok THEN @ ELSE @ + 1],
              ret  |-> Some([ok |-> TRUE, character |-> c,
                             range |-> <<start, end>>])]

CharsNext(self) ==
    IF self.incoming = <<>> THEN [self |-> self, ret |-> None]
    ELSE
    LET start == BlackholeLen(self.accumulator)
        d     == Head(self.incoming)
        rest  == [self EXCEPT !.incoming = Tail(@)]
    IN  IF d.ok
        THEN LET acc == BlackholeExtend(self.accumulator, Utf8Bytes(d.character))
                 end == saturating_sub(BlackholeLen(acc), 1)
             IN  [self |-> [rest EXCEPT !.success_count = @ + Utf8Len(d.character),
                                        !.accumulator = acc],
                  ret  |-> Some([ok |-> TRUE, character |-> d.character,
                                 range |-> <<start, end>>])]
        ELSE LET failed == [rest EXCEPT !.failed_count = @ + Len(d.bytes)]
             IN  IF self.is_lossy
                 THEN LET acc == BlackholeExtend(self.accumulator, Utf8Bytes("FFFD"))
                          end == saturating_sub(BlackholeLen(acc), 1)
                      IN  [self |-> [failed EXCEPT !.accumulator = acc],
                           ret  |-> Some([ok |-> TRUE, character |-> "FFFD",
                                          range |-> <<start, end>>])]
                 ELSE [self |-> failed, ret |-> Some(d)]

(***************************************************************************)
(* Clusters (src/lexical/stream.rs)                                        *)
(***************************************************************************)
ClustersNew(chars, is_lossy, void) ==
    [chars |-> CharsNew(chars, is_lossy, void), buffer |-> <<>>,
     ranges |-> <<>>, pending_error |-> None]

(* combine_ranges returning the first drained range alone.                 *)
combine_ranges_first(self, e) ==
    LET end       == saturating_sub(Len(self.ranges), 1)
        valid_end == IF e = None THEN TRUE ELSE e[1] - 1 <= end
        n         == IF e = None THEN Len(self.ranges) ELSE e[1]
        drained   == SubSeq(self.ranges, 1, n)
    IN  IF ~valid_end THEN [self |-> self, ret |-> None]
        ELSE [self |-> [self EXCEPT !.ranges = SubSeq(@, n + 1, Len(@))],
              ret  |-> IF drained = <<>> THEN None
                       ELSE Some(<<drained[1][1], drained[1][2]>>)]

(* combine_ranges(..e) drains the first e ranges (all of them for `..`,    *)
(* given as e = None) and joins the first start with the last end.         *)
combine_ranges(self, e) ==
    LET end       == saturating_sub(Len(self.ranges), 1)
        valid_end == IF e = None THEN TRUE ELSE e[1] - 1 <= end
        n         == IF e = None THEN Len(self.ranges) ELSE e[1]
        drained   == SubSeq(self.ranges, 1, n)
    IN  IF ~valid_end THEN [self |-> self, ret |-> None]
        ELSE [self |-> [self EXCEPT !.ranges = SubSeq(@, n + 1, Len(@))],
              ret  |-> IF drained = <<>> THEN None
                       ELSE Some(<<drained[1][1], drained[Len(drained)][2]>>)]

(* combine_ranges(..).unwrap(), then mem::replace(&mut self.buffer, "").   *)
ClustersFlush(self) ==
    Bind(combine_ranges(self, None), LAMBDA cr :
        [self |-> [cr.self EXCEPT !.buffer = <<>>],
         ret  |-> Some([ok |-> TRUE, grapheme |-> self.buffer,
                        range |-> cr.ret[1]])])

(* The buffer holds two clusters: return the first, keep the second.       *)
ClustersSplit(self, second_pos) ==
    Bind(combine_ranges(self, Some(saturating_sub(Len(self.ranges), 1))),
         LAMBDA cr :
        [self |-> [cr.self EXCEPT !.buffer =
                      SubSeq(self.buffer, second_pos + 1, Len(self.buffer))],
         ret  |-> Some([ok |-> TRUE,
                        grapheme |-> SubSeq(self.buffer, 1, second_pos),
                        range |-> cr.ret[1]])])

(* self.buffer.push(character); self.ranges.push_back(byte_range) *)
ClustersPush(self, c) ==
    [self EXCEPT !.buffer = Append(@, c.character),
                 !.ranges = Append(@, c.range)]

RECURSIVE ClustersLoop(_)
ClustersLoop(self) ==
    Bind(CharsNext(self.chars), LAMBDA n :
    Bind([self EXCEPT !.chars = n.self], LAMBDA s1 :
        IF n.ret = None
        THEN IF s1.buffer = <<>> THEN [self |-> s1, ret |-> None]
             ELSE ClustersFlush(s1)
        ELSE IF ~n.ret[1].ok
        THEN IF s1.buffer = <<>> THEN [self |-> s1, ret |-> n.ret]
             ELSE ClustersFlush([s1 EXCEPT !.pending_error = n.ret])
        ELSE Bind(ClustersPush(s1, n.ret[1]), LAMBDA s2 :
             Bind(SecondGraphemePos(s2.buffer), LAMBDA second_pos :
                 IF second_pos = None THEN ClustersLoop(s2)
                 ELSE ClustersSplit(s2, second_pos[1])))))

(* Clusters::next clearing the pending error without returning it.         *)
ClustersNextDropsPending(self) ==
    ClustersLoop([self EXCEPT !.pending_error = None])

ClustersNext(self) ==
    IF self.pending_error # None
    THEN [self |-> [self EXCEPT !.pending_error = None],
          ret  |-> self.pending_error]
    ELSE ClustersLoop(self)

(***************************************************************************)
(* Graphemes (src/lexical/stream.rs)                                       *)
(***************************************************************************)
GraphemesNew(reader, is_lossy, void) ==
    [iter |-> ClustersNew(reader, is_lossy, void), count |-> 0, column |-> 0,
     lines |-> << <<>> >>, queue |-> <<>>, peek_index |-> 0,
     last_byte_index |-> 0]

current_line(self) == saturating_sub(Len(self.lines), 1)
current_column(self) == self.column
current_index_count(self) == self.count
current_index_peeked(self) == saturating_sub(self.count + Len(self.queue), 1)
current_index(self) == saturating_sub(self.count, 1)
grapheme_count(self) == self.count
invalid_bytes(self) == self.iter.chars.failed_count
current_byte_index_exclusive(self) == self.last_byte_index + 1
current_byte_index(self) == self.last_byte_index

IsNewline(grapheme) == grapheme = <<"CR", "LF">> \/ grapheme = <<"LF">>

GraphemeLocation(index, byte_range, line, column) ==
    [index |-> index, byte_range |-> byte_range, line |-> line, column |-> column]

reset_peek(self) == [self EXCEPT !.peek_index = 0]

(* peek, lines 314-324: the queue entry at peek_index, read from the       *)
(* clusters when the queue does not reach that far.                        *)
PeekFill(self) ==
    IF self.peek_index < Len(self.queue)
    THEN [self |-> self, some |-> TRUE]
    ELSE Bind(ClustersNext(self.iter), LAMBDA n :
             IF n.ret = None
             THEN [self |-> [self EXCEPT !.iter = n.self], some |-> FALSE]
             ELSE [self |-> [self EXCEPT !.iter = n.self,
                                         !.queue = Append(@, n.ret[1])],
                   some |-> TRUE])

(* peek moving the column as next does. *)
PeekResultAdvance(self, result) ==
    IF result.ok
    THEN [self |-> [self EXCEPT !.peek_index = @ + 1, !.column = @ + 1],
          ret  |-> Some(<<result.grapheme,
                          GraphemeLocation(current_index(self), result.range,
                              saturating_sub(Len(self.lines), 1),
                              self.column + 1)>>)]
    ELSE [self |-> self, ret |-> None]

(* peek, lines 326-348 *)
PeekResult(self, result) ==
    IF result.ok
    THEN [self |-> [self EXCEPT !.peek_index = @ + 1],
          ret  |-> Some(<<result.grapheme,
                          GraphemeLocation(
                              current_index(self), result.range,
                              IF IsNewline(result.grapheme) THEN Len(self.lines)
                              ELSE saturating_sub(Len(self.lines), 1),
                              IF IsNewline(result.grapheme) THEN 0
                              ELSE IF self.count = 0 THEN 0
                              ELSE self.column + 1)>>)]
    ELSE [self |-> self, ret |-> None]

peek(self) ==
    Bind(PeekFill(self), LAMBDA f :
        IF f.some THEN PeekResult(f.self, f.self.queue[f.self.peek_index + 1])
        ELSE [self |-> f.self, ret |-> None])

(* LexError::other(error) *)
LexErrorOther(error) == [kind |-> "Other", error |-> error]
UnexpectedEndOfStream == [kind |-> "UnexpectedEndOfStream"]

(* Graphemes::next, lines 365-386: a grapheme was read. *)
GraphemesAdvance(self, grapheme, range) ==
    Bind(IF IsNewline(grapheme)
         THEN [self EXCEPT !.count = @ + 1, !.column = 0,
                           !.lines = Append(@, <<>>),
                           !.last_byte_index = range[2]]
         ELSE [self EXCEPT !.count = @ + 1,
                           !.column = IF self.count + 1 # 1 THEN @ + 1 ELSE @,
                           !.lines[Len(self.lines)] = @ \o grapheme,
                           !.last_byte_index = range[2]],
         LAMBDA s :
        [self |-> s,
         ret  |-> Some([ok |-> TRUE, grapheme |-> grapheme,
                        location |-> GraphemeLocation(current_index(s), range,
                                         current_line(s), current_column(s))])])

(* line 363 with the clusters asked before the queue of peeked results.   *)
GraphemesPopIterFirst(self) ==
    Bind(ClustersNext(self.iter), LAMBDA n :
        IF n.ret # None \/ self.queue = <<>>
        THEN [self |-> [self EXCEPT !.iter = n.self], ret |-> n.ret]
        ELSE [self |-> [self EXCEPT !.iter = n.self, !.queue = Tail(@)],
              ret  |-> Some(Head(self.queue))])

(* Graphemes::next, line 363: queue.pop_front().or_else(|| iter.next()) *)
GraphemesPop(self) ==
    IF self.queue # <<>>
    THEN [self |-> [self EXCEPT !.queue = Tail(@)], ret |-> Some(Head(self.queue))]
    ELSE Bind(ClustersNext(self.iter), LAMBDA n :
             [self |-> [self EXCEPT !.iter = n.self], ret |-> n.ret])

(* Iterator::next of Graphemes *)
GraphemesNext(self) ==
    Bind(GraphemesPop(reset_peek(self)), LAMBDA p :
        IF p.ret = None THEN [self |-> p.self, ret |-> None]
        ELSE IF ~p.ret[1].ok
        THEN [self |-> p.self,
              ret  |-> Some([ok |-> FALSE, error |-> LexErrorOther(p.ret[1])])]
        ELSE GraphemesAdvance(p.self, p.ret[1].grapheme, p.ret[1].range))

(***************************************************************************)
(* Span (src/lexical/span.rs)                                              *)
(***************************************************************************)
Line(index, range) == [index |-> index, range |-> range]

(* Clusters::new(Cursor::new(line), true, true).count() *)
RECURSIVE ClustersCount(_)
ClustersCount(self) ==
    Bind(ClustersNext(self), LAMBDA n :
        IF n.ret = None THEN 0 ELSE 1 + ClustersCount(n.self))

LineClusters(lines, l) ==
    Bind(IF l + 1 <= Len(lines) THEN lines[l + 1] ELSE <<>>, LAMBDA text :
        ClustersCount(ClustersNew(
            [i \in 1..Len(text) |-> [ok |-> TRUE, character |-> text[i]]],
            TRUE, TRUE)))

(* generate_lines with the single line's range taken from column 0.        *)
generate_lines_from_zero(lines, line_range, column_range) ==
    IF line_range[1] = line_range[2]
    THEN <<Line(line_range[1], <<0, column_range[2]>>)>>
    ELSE [k \in 1..(line_range[2] - line_range[1] + 1) |->
            IF line_range[1] + k - 1 = line_range[2]
            THEN Line(line_range[2], <<0, column_range[2]>>)
            ELSE Line(line_range[1] + k - 1,
                      <<0, LineClusters(lines, line_range[1] + k - 1)>>)]

(* generate_lines walking line_range without its end line.                 *)
generate_lines_exclusive(lines, line_range, column_range) ==
    IF line_range[1] = line_range[2]
    THEN <<Line(line_range[1], column_range)>>
    ELSE [k \in 1..(line_range[2] - line_range[1]) |->
            IF line_range[1] + k = line_range[2]
            THEN Line(line_range[1] + k - 1, <<0, column_range[2]>>)
            ELSE Line(line_range[1] + k - 1,
                      <<0, LineClusters(lines, line_range[1] + k - 1)>>)]

generate_lines(lines, line_range, column_range) ==
    IF line_range[1] = line_range[2]
    THEN <<Line(line_range[1], column_range)>>
    ELSE [k \in 1..(line_range[2] - line_range[1] + 1) |->
            IF line_range[1] + k - 1 = line_range[2]
            THEN Line(line_range[2], <<0, column_range[2]>>)
            ELSE Line(line_range[1] + k - 1,
                      <<0, LineClusters(lines, line_range[1] + k - 1)>>)]

SpanNew(lines, grapheme_range, byte_range, line_range, column_range) ==
    [lines |-> generate_lines(lines, line_range, column_range),
     grapheme_range |-> Some(grapheme_range),
     byte_range |-> Some(byte_range),
     source |-> "source"]

SpanDefault ==
    [lines |-> <<>>, grapheme_range |-> None, byte_range |-> None, source |-> ""]

(* Token::new(token, span) and Token::from(token) of the lexer's tokens.   *)
TokenNew(value, span) == [token |-> value, span |-> span]
TokenFrom(value) == TokenNew(value, SpanDefault)

(***************************************************************************)
(* Tokenizers registered by a grammar (src/lexical/mod.rs, tests)          *)
(***************************************************************************)
TokenValue(kind, value) == [kind |-> kind, value |-> value]

should_skip_never(value) == FALSE
should_skip(value) == value.kind = "Whitespace"

LexOk(incoming, value) == [incoming |-> incoming, ok |-> TRUE, token |-> value]
LexErr(incoming, error) == [incoming |-> incoming, ok |-> FALSE, error |-> error]

(* Whitespace::is folded over the chars of a grapheme. *)
IsWhitespace(grapheme) ==
    \A i \in 1..Len(grapheme) : grapheme[i] \in {"SPACE", "LF", "CR", "FFFD"}

(* Tokenizer::can_tokenize of a fresh tokenizer made by the factory t.     *)
can_tokenize(t, prior, grapheme, location, next) ==
    CASE t = "DoubleQuotedStringLexer" ->
            /\ grapheme = <<"QUOTE">>
            /\ next # None
            /\ next[1] \notin {<<"LF">>, <<"CR">>}
      [] t = "Whitespace" -> IsWhitespace(grapheme)
      [] OTHER -> TRUE

(* DoubleQuotedStringLexer::lex, lines 88-109: one grapheme was read. *)
RECURSIVE DoubleQuotedLoop(_, _)
DoubleQuotedStep(incoming, internal_value, character) ==
    IF internal_value # <<>> /\ internal_value[Len(internal_value)] = "BACKSLASH"
    THEN IF character = <<"QUOTE">>
         THEN DoubleQuotedLoop(incoming,
                  SubSeq(internal_value, 1, Len(internal_value) - 1) \o character)
         ELSE LexErr(incoming,
                     LexErrorOther(<<"Invalid escape character", character>>))
    ELSE IF character = <<"QUOTE">>
         THEN LexOk(incoming, TokenValue("DoubleQuotedString", internal_value))
         ELSE DoubleQuotedLoop(incoming, internal_value \o character)

(* lex returning the string read so far when the stream ends.              *)
DoubleQuotedLoopForced(incoming, internal_value) ==
    Bind(GraphemesNext(incoming), LAMBDA n :
        IF n.ret = None
        THEN LexOk(n.self, TokenValue("DoubleQuotedString", internal_value))
        ELSE IF ~n.ret[1].ok THEN LexErr(n.self, LexErrorOther(n.ret[1].error))
        ELSE DoubleQuotedStep(n.self, internal_value, n.ret[1].grapheme))

(* DoubleQuotedStringLexer::lex *)
DoubleQuotedLoop(incoming, internal_value) ==
    Bind(GraphemesNext(incoming), LAMBDA n :
        IF n.ret = None THEN LexErr(n.self, UnexpectedEndOfStream)
        ELSE IF ~n.ret[1].ok THEN LexErr(n.self, LexErrorOther(n.ret[1].error))
        ELSE DoubleQuotedStep(n.self, internal_value, n.ret[1].grapheme))

(* Whitespace::lex, the loop after the first grapheme *)
RECURSIVE WhitespaceLoop(_)
WhitespaceLoop(incoming) ==
    Bind(peek(incoming), LAMBDA pk :
        IF pk.ret # None /\ IsWhitespace(pk.ret[1][1])
        THEN WhitespaceLoop(GraphemesNext(pk.self).self)
        ELSE LexOk(pk.self, TokenValue("Whitespace", <<>>)))

WhitespaceLex(incoming) ==
    Bind(peek(incoming), LAMBDA pk :
        IF pk.ret = None \/ ~IsWhitespace(pk.ret[1][1])
        THEN LexOk(pk.self, TokenValue("Whitespace", <<>>))
        ELSE WhitespaceLoop(GraphemesNext(pk.self).self))

(* Tokenizer::lex of the tokenizer that accepted `grapheme`. *)
lex(t, grapheme, incoming) ==
    CASE t = "DoubleQuotedStringLexer" -> DoubleQuotedLoop(incoming, <<>>)
      [] t = "Whitespace" -> WhitespaceLex(incoming)
      [] OTHER -> LexOk(incoming, TokenValue("Symbol", grapheme))

(***************************************************************************)
(* Lexer (src/lexical/lexer.rs)                                            *)
(***************************************************************************)
LexerNew(reader, is_lossy, store_bytes, eof_token, creation_funcs) ==
    [tokens |-> <<>>, creation_funcs |-> creation_funcs,
     eof_token |-> eof_token,
     incoming |-> GraphemesNew(reader, is_lossy, ~store_bytes)]

(* The registration index of the last factory whose can_tokenize accepts.  *)
LastTokenizer(creation_funcs, i, prior, grapheme, location, next) ==
    LET A == {j \in i..Len(creation_funcs) :
                 can_tokenize(creation_funcs[j], prior, grapheme, location, next)}
    IN  IF A = {} THEN 0 ELSE CHOOSE j \in A : \A k \in A : k <= j

(* for f in &self.creation_funcs { if can_tokenize(..) { ..; break } }:    *)
(* the registration index of the factory whose lex is called, 0 if none.   *)
RECURSIVE FindTokenizer(_, _, _, _, _, _)
FindTokenizer(creation_funcs, i, prior, grapheme, location, next) ==
    IF i > Len(creation_funcs) THEN 0
    ELSE IF can_tokenize(creation_funcs[i], prior, grapheme, location, next)
    THEN i
    ELSE FindTokenizer(creation_funcs, i + 1, prior, grapheme, location, next)

ItemOk(value) == Some([ok |-> TRUE, token |-> value])
ItemErr(error) == Some([ok |-> FALSE, error |-> error])

(* The end-of-stream branch pushing the EOF token a second time.           *)
LexerEofTwice(self, incoming) ==
    IF self.eof_token # None
    THEN [self |-> [self EXCEPT !.incoming = incoming, !.eof_token = None,
                                !.tokens = Append(Append(@,
                                               TokenFrom(self.eof_token[1])),
                                               TokenFrom(self.eof_token[1]))],
          ret |-> ItemOk(Some(TokenFrom(self.eof_token[1]))), start |-> None]
    ELSE [self |-> [self EXCEPT !.incoming = incoming],
          ret |-> None, start |-> None]

(* Lexer::next, lines 141-149: the stream is exhausted. *)
LexerEof(self, incoming) ==
    IF self.eof_token # None
    THEN [self |-> [self EXCEPT !.incoming = incoming, !.eof_token = None,
                                !.tokens = Append(@, TokenFrom(self.eof_token[1]))],
          ret |-> ItemOk(Some(TokenFrom(self.eof_token[1]))), start |-> None]
    ELSE [self |-> [self EXCEPT !.incoming = incoming],
          ret |-> None, start |-> None]

(* The completion of a token inserting it at the front of the tokens.      *)
LexerFinishPrepend(self, st, incoming, lx) ==
    IF ~lx.ok
    THEN [self |-> [self EXCEPT !.incoming = incoming],
          ret |-> ItemErr(lx.error), start |-> Some(st)]
    ELSE IF ~should_skip(lx.token)
    THEN Bind(TokenNew(lx.token,
                  SpanNew(incoming.lines,
                      <<st.location.index, current_index(incoming)>>,
                      <<st.location.byte_range[1], current_byte_index(incoming)>>,
                      <<st.location.line, current_line(incoming)>>,
                      <<st.location.column, current_column(incoming)>>)),
              LAMBDA tok :
             [self |-> [self EXCEPT !.incoming = incoming,
                                    !.tokens = <<tok>> \o @],
              ret |-> ItemOk(Some(tok)), start |-> Some(st)])
    ELSE [self |-> [self EXCEPT !.incoming = incoming],
          ret |-> ItemOk(None), start |-> Some(st)]

(* Lexer::next, lines 179-213: the selected tokenizer's lex has returned   *)
(* lx and the peek cursor was reset (incoming).                            *)
LexerFinish(self, st, incoming, lx) ==
    IF ~lx.ok
    THEN [self |-> [self EXCEPT !.incoming = incoming],
          ret |-> ItemErr(lx.error), start |-> Some(st)]
    ELSE IF ~should_skip(lx.token)
    THEN Bind(TokenNew(lx.token,
                  SpanNew(incoming.lines,
                      <<st.location.index, current_index(incoming)>>,
                      <<st.location.byte_range[1], current_byte_index(incoming)>>,
                      <<st.location.line, current_line(incoming)>>,
                      <<st.location.column, current_column(incoming)>>)),
              LAMBDA tok :
             [self |-> [self EXCEPT !.incoming = incoming,
                                    !.tokens = Append(@, tok)],
              ret |-> ItemOk(Some(tok)), start |-> Some(st)])
    ELSE [self |-> [self EXCEPT !.incoming = incoming],
          ret |-> ItemOk(None), start |-> Some(st)]

(* Lexer::next, lines 161-220: dispatch of the token start st. *)
LexerDispatch(self, st, incoming) ==
    IF st.selected = 0
    THEN [self |-> [self EXCEPT !.incoming = incoming],
          ret |-> ItemErr(LexErrorOther(
                      <<"Failed to find a tokenizer for", st.grapheme>>)),
          start |-> Some(st)]
    ELSE Bind(lex(self.creation_funcs[st.selected], st.grapheme, incoming),
              LAMBDA lx : LexerFinish(self, st, reset_peek(lx.incoming), lx))

(* Lexer::next, lines 153-176: look ahead, then find the tokenizer; the    *)
(* record describes the token start and the factory selected for it.       *)
LexerStart(self, grapheme, location, pk) ==
    Bind(IF pk.ret = None THEN None ELSE Some(pk.ret[1][1]), LAMBDA next :
        LexerDispatch(self,
            [grapheme |-> grapheme, location |-> location, next |-> next,
             prior |-> self.tokens,
             selected |-> FindTokenizer(self.creation_funcs, 1, self.tokens,
                                        grapheme, location, next)],
            reset_peek(pk.self)))

(* Iterator::next of Lexer *)
LexerNext(self) ==
    Bind(GraphemesNext(self.incoming), LAMBDA g :
        IF g.ret = None THEN LexerEof(self, g.self)
        ELSE IF ~g.ret[1].ok
        THEN [self |-> [self EXCEPT !.incoming = g.self],
              ret |-> ItemErr(g.ret[1].error), start |-> None]
        ELSE LexerStart(self, g.ret[1].grapheme, g.ret[1].location, peek(g.self)))

RECURSIVE tokenize(_)

(* tokenize with `Err(_) => {}` in place of the return. *)
tokenizeIgnoreErrors(self) ==
    Bind(LexerNext(self), LAMBDA n :
        IF n.ret = None
        THEN [self |-> n.self, ret |-> [ok |-> TRUE, tokens |-> n.self.tokens]]
        ELSE tokenize(n.self))

(* Lexer::tokenize: while let Some(result) = self.next() { .. } *)
tokenize(self) ==
    Bind(LexerNext(self), LAMBDA n :
        IF n.ret = None
        THEN [self |-> n.self, ret |-> [ok |-> TRUE, tokens |-> n.self.tokens]]
        ELSE IF ~n.ret[1].ok
        THEN [self |-> n.self, ret |-> [ok |-> FALSE, error |-> n.ret[1].error]]
        ELSE tokenize(n.self))

(***************************************************************************)
(* The inputs the lexer is run on                                          *)
(***************************************************************************)
MaxInput == 3

(* What the reader decodes to: chars, and one invalid byte (0xAD). *)
LexAlphabet ==
    {[ok |-> TRUE, character |-> c] : c \in {"a", "QUOTE", "SPACE", "LF"}}
        \cup {[ok |-> FALSE, bytes |-> <<173>>]}

LexInputs == UNION {[1..n -> LexAlphabet] : n \in 0..MaxInput}

(* The ordered tokenizer registrations, .tokenizer(..).tokenizer(..) *)
Registrations ==
    {<<"DoubleQuotedStringLexer", "Whitespace">>,
     <<"DoubleQuotedStringLexer", "Whitespace", "Symbol">>,
     <<"Symbol", "Whitespace", "DoubleQuotedStringLexer">>}

(***************************************************************************)
(* State                                                                   *)
(***************************************************************************)
VARIABLES
    tokens,     \* the shared TokenIter (Rc<RefCell<TokenIter>>)
    pc,         \* "ready" before the root parser is called, "done" after
    parser,     \* Some(root parser called), None before
    before,     \* the TokenIter at the moment the root parser was called
    results,    \* Some(what the root parser returned), None before
    lexer,      \* the Lexer
    item,       \* what the last call of Lexer::next returned
    start,      \* the token start the last call of Lexer::next dispatched
    output,     \* Some(what Lexer::tokenize returned) when it was the last call
    stream,     \* a Graphemes stream used on its own
    origin,     \* what that stream was created with
    returned,   \* the Some(..) results of its calls of next, in call order
    op          \* the last method called on it

vars ==
    <<tokens, pc, parser, before, results, lexer, item, start, output,
      stream, origin, returned, op>>

parserVars == <<tokens, pc, parser, before, results>>
lexerVars == <<lexer, item, start, output>>
streamVars == <<stream, origin, returned, op>>

(* A stream over an empty reader on which nothing was called. *)
StreamIdle ==
    /\ origin = [incoming |-> <<>>, is_lossy |-> TRUE, void |-> TRUE]
    /\ stream = GraphemesNew(<<>>, TRUE, TRUE)
    /\ returned = <<>>
    /\ op = "new"

(* A lexer that has read an empty input and holds no tokens. *)
LexerIdle == LexerNew(<<>>, TRUE, TRUE, None, <<>>)

Init ==
    /\ tokens \in {TokenIterNew(v) : v \in TokenVecs}
    /\ pc = "ready"
    /\ parser = None
    /\ before = tokens
    /\ results = None
    /\ lexer = LexerIdle
    /\ item = None
    /\ start = None
    /\ output = None
    /\ StreamIdle

(* A caller advances the iterator by hand: TokenIter::next. *)
IterNext ==
    /\ pc = "ready"
    /\ tokens' = TokenIterNext(tokens).self
    /\ before' = tokens'
    /\ UNCHANGED <<pc, parser, results>>
    /\ UNCHANGED <<lexerVars, streamVars>>

(* A parser is called on the shared iterator. *)
Parse(p) ==
    /\ pc = "ready"
    /\ LET r == Run(p, tokens)
       IN  /\ tokens' = r.tokens
           /\ results' = Some(r)
    /\ parser' = Some(p)
    /\ before' = tokens
    /\ pc' = "done"
    /\ UNCHANGED <<lexerVars, streamVars>>

(* A TreeBuilder made for a root parser parses the token vector. *)
Build(p) ==
    /\ pc = "ready"
    /\ tokens.last_node = None
    /\ LET r == TreeBuilderParse(TreeBuilderNew(p), tokens.tokens)
       IN  /\ tokens' = r.tokens
           /\ results' = Some(r)
    /\ parser' = Some(p)
    /\ before' = tokens
    /\ pc' = "built"
    /\ UNCHANGED <<lexerVars, streamVars>>

Next ==
    \/ IterNext
    \/ \E p \in Parsers : Parse(p)
    \/ \E p \in Parsers : Build(p)

Spec == Init /\ [][Next]_vars

(***************************************************************************)
(* The lexer run: Lexer::new(..).tokenizer(..), then calls of next         *)
(***************************************************************************)
LexInit ==
    /\ \E reader \in LexInputs, is_lossy \in BOOLEAN, store_bytes \in BOOLEAN,
          eof_token \in {None, Some(TokenValue("Eof", <<>>))},
          creation_funcs \in Registrations :
            /\ lexer = LexerNew(reader, is_lossy, store_bytes, eof_token,
                                creation_funcs)
            /\ origin = [incoming |-> reader, is_lossy |-> is_lossy,
                         void |-> ~store_bytes]
            /\ stream = GraphemesNew(reader, is_lossy, ~store_bytes)
    /\ returned = <<>>
    /\ op = "new"
    /\ item = None
    /\ start = None
    /\ output = None
    /\ tokens = TokenIterNew(<<>>)
    /\ pc = "lexing"
    /\ parser = None
    /\ before = tokens
    /\ results = None

(* One call of Lexer::next (tokenize calls it in a loop). *)
LexNext ==
    /\ pc = "lexing"
    /\ LET n == LexerNext(lexer)
       IN  /\ lexer' = n.self
           /\ item' = n.ret
           /\ start' = n.start
    /\ output' = None
    /\ UNCHANGED <<parserVars, streamVars>>

(* One call of Lexer::tokenize. *)
LexTokenize ==
    /\ pc = "lexing"
    /\ LET t == tokenize(lexer)
       IN  /\ lexer' = t.self
           /\ output' = Some(t.ret)
    /\ item' = None
    /\ start' = None
    /\ UNCHANGED <<parserVars, streamVars>>

LexStep == LexNext \/ LexTokenize

LexSpec == LexInit /\ [][LexStep]_vars

(***************************************************************************)
(* The lexer over multi-line sources (tests::test_spans): the grammar of   *)
(* double quoted strings, whitespace and symbols over valid input; stream  *)
(* is a second, untouched grapheme stream over the same reader.            *)
(***************************************************************************)
MaxSpanInput == 5

SpanAlphabet ==
    {[ok |-> TRUE, character |-> c] : c \in {"a", "QUOTE", "LF"}}

SpanInputs == UNION {[1..n -> SpanAlphabet] : n \in 0..MaxSpanInput}

SpanInit ==
    /\ \E incoming \in SpanInputs :
          /\ lexer = LexerNew(incoming, TRUE, TRUE, None,
                       <<"DoubleQuotedStringLexer", "Whitespace", "Symbol">>)
          /\ origin = [incoming |-> incoming, is_lossy |-> TRUE, void |-> FALSE]
          /\ stream = GraphemesNew(incoming, TRUE, FALSE)
    /\ returned = <<>>
    /\ op = "new"
    /\ item = None
    /\ start = None
    /\ output = None
    /\ tokens = TokenIterNew(<<>>)
    /\ pc = "lexing"
    /\ parser = None
    /\ before = tokens
    /\ results = None

SpanSpec == SpanInit /\ [][LexStep]_vars

(***************************************************************************)
(* The grapheme stream on its own: Graphemes::new, then any interleaving   *)
(* of next, peek and reset_peek                                            *)
(***************************************************************************)
MaxStream == 3

(* What the reader decodes to: chars, and invalid runs of one or two bytes *)
StreamAlphabet ==
    {[ok |-> TRUE, character |-> c] : c \in {"a", "LF", "CR", "MARK"}}
        \cup {[ok |-> FALSE, bytes |-> <<173>>],
              [ok |-> FALSE, bytes |-> <<173, 173>>]}

StreamInputs == UNION {[1..n -> StreamAlphabet] : n \in 0..MaxStream}

StreamInit ==
    /\ \E incoming \in StreamInputs, is_lossy \in BOOLEAN, void \in BOOLEAN :
          /\ origin = [incoming |-> incoming, is_lossy |-> is_lossy,
                       void |-> void]
          /\ stream = GraphemesNew(incoming, is_lossy, void)
    /\ returned = <<>>
    /\ op = "new"
    /\ lexer = LexerIdle
    /\ item = None
    /\ start = None
    /\ output = None
    /\ tokens = TokenIterNew(<<>>)
    /\ pc = "streaming"
    /\ parser = None
    /\ before = tokens
    /\ results = None

(* One call of Graphemes::next. *)
StreamNext ==
    /\ pc = "streaming"
    /\ LET n == GraphemesNext(stream)
       IN  /\ stream' = n.self
           /\ returned' = returned \o n.ret
    /\ op' = "next"
    /\ UNCHANGED <<origin, parserVars, lexerVars>>

(* One call of Graphemes::peek. *)
StreamPeek ==
    /\ pc = "streaming"
    /\ stream' = peek(stream).self
    /\ op' = "peek"
    /\ UNCHANGED <<origin, returned, parserVars, lexerVars>>

(* One call of Graphemes::reset_peek. *)
StreamResetPeek ==
    /\ pc = "streaming"
    /\ stream' = reset_peek(stream)
    /\ op' = "reset_peek"
    /\ UNCHANGED <<origin, returned, parserVars, lexerVars>>

StreamStep == StreamNext \/ StreamPeek \/ StreamResetPeek

StreamSpec == StreamInit /\ [][StreamStep]_vars

(***************************************************************************)
(* Properties of the combinators                                           *)
(***************************************************************************)
Done == pc = "done"
P == parser[1]
R == results[1]

(* Does the parser p, called on the iterator state it, return Ok / Err?    *)
Succeeds(p, it) == Run(p, it).ok
Fails(p, it) == ~Run(p, it).ok

(* C2: token::<T>(project) called on an iterator whose next token is not a *)
(* Token<T>, or on an exhausted iterator, returns Err and the iterator     *)
(* holds the same remaining tokens as before the call.                     *)
C2_TokenFailureConsumesNothing ==
    (/\ Done
     /\ P.k = "token"
     /\ \/ before.tokens = <<>>
        \/ Head(before.tokens).ty # P.ty)
    => (~R.ok /\ tokens.tokens = before.tokens)

(* C3: when a parser of a sequence fails after earlier ones succeeded, the *)
(* sequence returns Err and the iterator is back at the position it had    *)
(* before the sequence started.                                            *)
C3_SequenceFailureRestores ==
    (/\ Done
     /\ P.k = "sequence"
     /\ \E i \in 2..Len(R.calls) :
            /\ ~R.calls[i].ok
            /\ \A j \in 1..(i - 1) : R.calls[j].ok)
    => (~R.ok /\ tokens.tokens = before.tokens)

(* C4: every alternative of any_of is started on a snapshot equal to the   *)
(* caller's iterator at any_of entry, whatever the failed alternatives     *)
(* before it consumed from their own snapshots.                            *)
C4_AnyOfAlternativesStartAtEntry ==
    (Done /\ P.k = "any_of")
    => \A i \in 1..Len(R.calls) :
          /\ R.calls[i].role = "alternative"
          /\ R.calls[i].start = before

(* A second alternative was started after the first one consumed tokens    *)
(* from its snapshot and failed.                                           *)
C4_Witness ==
    /\ Done
    /\ P.k = "any_of"
    /\ Len(R.calls) = 2
    /\ ~R.calls[1].ok
    /\ Run(P.parsers[1], before).tokens.tokens # before.tokens

(* C5: any_of([a, b]) with a failing and b succeeding returns b's node and *)
(* leaves the iterator as running b alone from the original position does. *)
C5_AnyOfSecondAloneEquivalent ==
    (/\ Done
     /\ P.k = "any_of"
     /\ Len(P.parsers) = 2
     /\ Fails(P.parsers[1], before)
     /\ Succeeds(P.parsers[2], before))
    => /\ R.ok
       /\ R.node = Run(P.parsers[2], before).node
       /\ tokens = Run(P.parsers[2], before).tokens

(* a consumed two tokens before failing, b then succeeded and consumed one *)
C5_Witness ==
    /\ Done
    /\ P.k = "any_of"
    /\ Fails(P.parsers[1], before)
    /\ Len(Run(P.parsers[1], before).tokens.tokens) + 2 = Len(before.tokens)
    /\ R.ok
    /\ Len(tokens.tokens) + 1 = Len(before.tokens)

(* C6: any_of returns Err if and only if every alternative fails, and then *)
(* the caller's iterator is unchanged.                                     *)
C6_AnyOfErrIffAllFail ==
    (Done /\ P.k = "any_of")
    => /\ ~R.ok <=> \A i \in 1..Len(P.parsers) : Fails(P.parsers[i], before)
       /\ ~R.ok => tokens = before

(* Both alternatives failed, the first after consuming a token.            *)
C6_Witness ==
    /\ Done
    /\ P.k = "any_of"
    /\ ~R.ok
    /\ Len(R.calls) = 2
    /\ before.tokens # <<>>
    /\ Run(P.parsers[1], before).tokens.tokens # before.tokens

(* The index of the first alternative that succeeds from the entry state.  *)
FirstSuccess(parsers, it) ==
    CHOOSE i \in 1..Len(parsers) :
        /\ Succeeds(parsers[i], it)
        /\ \A j \in 1..(i - 1) : Fails(parsers[j], it)

(* C7: any_of tries the alternatives in list order; the first that         *)
(* succeeds gives the returned node, no later alternative is run, and the  *)
(* caller's iterator becomes that alternative's end state.                 *)
C7_AnyOfFirstSuccessCommits ==
    (/\ Done
     /\ P.k = "any_of"
     /\ \E i \in 1..Len(P.parsers) : Succeeds(P.parsers[i], before))
    => LET n == FirstSuccess(P.parsers, before)
       IN  /\ R.ok
           /\ Len(R.calls) = n
           /\ \A i \in 1..n : R.calls[i].parser = P.parsers[i]
           /\ R.node = Run(P.parsers[n], before).node
           /\ tokens = Run(P.parsers[n], before).tokens

(* The first alternative succeeded and consumed a token although the       *)
(* second one would have succeeded as well, leaving another state.         *)
C7_Witness ==
    /\ Done
    /\ P.k = "any_of"
    /\ R.ok
    /\ Len(R.calls) = 1
    /\ tokens # before
    /\ Succeeds(P.parsers[2], before)
    /\ Run(P.parsers[2], before).tokens # tokens

(* C8: repeated(element, None) where element does not match at the start  *)
(* returns Ok with an aggregate node without children and the iterator     *)
(* holds the same remaining tokens.                                        *)
C8_RepeatedZeroMatchesConsumesNothing ==
    (/\ Done
     /\ P.k = "repeated"
     /\ P.separator = None
     /\ P.element.k = "token"
     /\ Fails(P.element, before))
    => /\ R.ok
       /\ R.node[1].children = <<>>
       /\ tokens.tokens = before.tokens

(* C9: repeated(element, Some(separator)) returns Err when element fails   *)
(* at the starting position.                                               *)
C9_RepeatedSeparatorNeedsElement ==
    (/\ Done
     /\ P.k = "repeated"
     /\ P.separator # None
     /\ Fails(P.element, before))
    => ~R.ok

(* The element failed at the start although a token was there.             *)
C9_Witness ==
    /\ Done
    /\ P.k = "repeated"
    /\ P.separator # None
    /\ before.tokens # <<>>
    /\ Fails(P.element, before)
    /\ Len(R.calls) = 1

(* C10: in repeated(element, Some(separator)), an element that fails right *)
(* after a matched separator makes the whole call return Err.              *)
C10_RepeatedDanglingSeparator ==
    (/\ Done
     /\ P.k = "repeated"
     /\ P.separator # None
     /\ \E i \in 2..Len(R.calls) :
            /\ R.calls[i - 1].role = "separator"
            /\ R.calls[i - 1].ok
            /\ R.calls[i].role = "element"
            /\ ~R.calls[i].ok)
    => ~R.ok

(* An element, a consumed separator, then no element.                      *)
C10_Witness ==
    /\ Done
    /\ P.k = "repeated"
    /\ P.separator # None
    /\ Len(R.calls) = 3
    /\ R.calls[1].ok
    /\ R.calls[2].role = "separator" /\ R.calls[2].ok
    /\ R.calls[2].start # R.calls[3].start
    /\ R.calls[3].role = "element" /\ ~R.calls[3].ok

(* The calls of the element parser that returned Ok, in call order. *)
MatchedElements(calls) ==
    SelectSeq(calls, LAMBDA c : c.role = "element" /\ c.ok)

(* C11: on success repeated returns an aggregate node with no value whose  *)
(* children are exactly the nodes of the matched elements in match order;  *)
(* separator results are not among them: n matched elements, n children.   *)
C11_RepeatedChildrenAreElements ==
    (Done /\ P.k = "repeated" /\ R.ok)
    => LET m == MatchedElements(R.calls)
       IN  /\ R.node[1].ty = "NoValue"
           /\ R.node[1].value = None
           /\ Len(R.node[1].children) = Len(m)
           /\ \A i \in 1..Len(m) :
                 R.node[1].children[i] = Run(P.element, m[i].start).node[1]

(* Two elements around one matched separator gave two children.            *)
C11_Witness ==
    /\ Done
    /\ P.k = "repeated"
    /\ P.separator # None
    /\ R.ok
    /\ Len(R.node[1].children) = 2
    /\ \E i \in 1..Len(R.calls) : R.calls[i].role = "separator" /\ R.calls[i].ok
    /\ R.node[1].children[1] # R.node[1].children[2]

(* The children of the aggregate node the flattened parser returns.        *)
FlattenChildren == Run(P.sequence, before).node[1].children

(* The values present in the children, in child order. *)
PresentValues(children) ==
    LET s == SelectSeq(children, LAMBDA c : c.value # None)
    IN  [i \in 1..Len(s) |-> s[i].value[1]]

(* C12 as stated: flatten::<T>(p) fails whenever a child of p's node is    *)
(* not a Node<T> or is a Node<T> whose value is None; it succeeds only if  *)
(* every child carries a present value of type T.                          *)
C12_FlattenFailsOnMissingValue ==
    (Done /\ P.k = "flatten" /\ Succeeds(P.sequence, before))
    => (R.ok <=> \A i \in 1..Len(FlattenChildren) :
                    /\ FlattenChildren[i].ty = P.ty
                    /\ FlattenChildren[i].value # None)

(* C12 amended: flatten::<T>(p) fails whenever a child of p's node is not  *)
(* a Node<T> and succeeds when every child is one; a Node<T> child whose   *)
(* value is None does not make it fail, it adds nothing to the sequence.   *)
C12_FlattenSkipsMissingValue ==
    (Done /\ P.k = "flatten" /\ Succeeds(P.sequence, before))
    => /\ R.ok <=> \A i \in 1..Len(FlattenChildren) :
                      FlattenChildren[i].ty = P.ty
       /\ R.ok => R.node[1].value = Some(PresentValues(FlattenChildren))

(* flatten returned Ok over a child of type T without a value and another  *)
(* child that carried one.                                                 *)
C12_Witness ==
    /\ Done
    /\ P.k = "flatten"
    /\ R.ok
    /\ \E i \in 1..Len(FlattenChildren) :
          FlattenChildren[i].ty = P.ty /\ FlattenChildren[i].value = None
    /\ R.node[1].value[1] # <<>>

(* C13: flatten::<T> over a sequence of n parsers that each yield a node   *)
(* carrying a T value returns a node without children whose value is the   *)
(* n values in child order, the order of the tokens they came from.        *)
C13_FlattenSequenceInOrder ==
    (/\ Done
     /\ P.k = "flatten"
     /\ P.sequence.k = "sequence"
     /\ Succeeds(P.sequence, before)
     /\ \A i \in 1..Len(FlattenChildren) :
           FlattenChildren[i].ty = P.ty /\ FlattenChildren[i].value # None)
    => /\ R.ok
       /\ R.node[1].ty = VecOf(P.ty)
       /\ R.node[1].children = <<>>
       /\ R.node[1].value # None
       /\ Len(R.node[1].value[1]) = Len(P.sequence.parsers)
       /\ \A i \in 1..Len(P.sequence.parsers) :
             /\ R.node[1].value[1][i] = FlattenChildren[i].value[1]
             /\ R.node[1].value[1][i] = before.tokens[i].internal_value

(* Three token parsers gave a three-element sequence.                      *)
C13_Witness ==
    /\ Done
    /\ P.k = "flatten"
    /\ P.sequence.k = "sequence"
    /\ Len(P.sequence.parsers) = 3
    /\ R.ok
    /\ Len(R.node[1].value[1]) = 3

(* C14: a node's value is moved out at most once: the children flatten     *)
(* took a value from are left without one, the values taken are the ones   *)
(* that were present, each once, and flattening the same children again    *)
(* obtains nothing.                                                        *)
C14_ValueTakenAtMostOnce ==
    (Done /\ P.k = "flatten" /\ Succeeds(P.sequence, before))
    => LET f == FlattenLoop(P.ty, FlattenChildren, 1, <<>>)
       IN  /\ \A i \in 1..Len(f.children) :
                 \/ f.children[i] = FlattenChildren[i]
                 \/ f.children[i].value = None
           /\ f.ok =>
                /\ \A i \in 1..Len(f.children) : f.children[i].value = None
                /\ f.items = PresentValues(FlattenChildren)
                /\ R.ok /\ R.node[1].value = Some(f.items)
                /\ FlattenLoop(P.ty, f.children, 1, <<>>).ok
                /\ FlattenLoop(P.ty, f.children, 1, <<>>).items = <<>>

(* flatten took the values of two children.                                *)
C14_Witness ==
    /\ Done
    /\ P.k = "flatten"
    /\ R.ok
    /\ Len(R.node[1].value[1]) >= 2
    /\ \A i \in 1..Len(FlattenChildren) : FlattenChildren[i].value # None

Built == pc = "built"

(* C15: TreeBuilder::parse never returns Ok when tokens remain in the      *)
(* iterator after the root parser ran; a root parser that succeeds on      *)
(* fewer tokens than the vector holds gives the "Unhandled Tokens!" error. *)
C15_TreeBuilderRejectsLeftover ==
    Built
    => /\ tokens.tokens # <<>> => (~R.ok /\ R.err = "Unhandled Tokens!")
       /\ R.ok => tokens.tokens = <<>>
       /\ (/\ Succeeds(P, before)
           /\ Len(Run(P, before).tokens.tokens) > 0)
          => (~R.ok /\ R.err = "Unhandled Tokens!")

(* The root parser returned Ok after consuming one of two tokens.          *)
C15_Witness ==
    /\ Built
    /\ Succeeds(P, before)
    /\ Len(before.tokens) = 2
    /\ Len(tokens.tokens) = 1
    /\ ~R.ok

(***************************************************************************)
(* Properties of the lexer                                                 *)
(***************************************************************************)
(* The registration indices of the factories that accept a token start.    *)
Accepting(st) ==
    {j \in 1..Len(lexer.creation_funcs) :
        can_tokenize(lexer.creation_funcs[j], st.prior, st.grapheme,
                     st.location, st.next)}

(* The kind of token value a tokenizer's lex produces. *)
Produces(t) ==
    CASE t = "DoubleQuotedStringLexer" -> "DoubleQuotedString"
      [] t = "Whitespace" -> "Whitespace"
      [] OTHER -> "Symbol"

(* The last call of Lexer::next appended a token made by the factory j.    *)
ProducedBy(j) ==
    /\ item # None
    /\ item[1].ok
    /\ item[1].token # None
    /\ item[1].token[1].token.kind = Produces(lexer.creation_funcs[j])
    /\ lexer.tokens # <<>>
    /\ lexer.tokens[Len(lexer.tokens)] = item[1].token[1]

EofTokens == {i \in 1..Len(lexer.tokens) : lexer.tokens[i].token.kind = "Eof"}

(* The next call of Lexer::next will find the grapheme stream exhausted.   *)
Exhausted == GraphemesNext(lexer.incoming).ret = None

(* At most one EOF token, the last of the vector, with an empty Span. *)
C16_AtMostOneEof ==
    /\ Cardinality(EofTokens) <= 1
    /\ EofTokens # {} =>
          /\ EofTokens = {Len(lexer.tokens)}
          /\ lexer.eof_token = None
          /\ lexer.tokens[Len(lexer.tokens)].span.lines = <<>>
          /\ lexer.tokens[Len(lexer.tokens)].span.grapheme_range = None
          /\ lexer.tokens[Len(lexer.tokens)].span.byte_range = None

(* A call of next on the exhausted stream appends the configured EOF token *)
(* and returns it, or appends nothing and returns None; a tokenize that    *)
(* returns Ok leaves the configured EOF token last.                        *)
C16_EofStep ==
    /\ (output' = None /\ Exhausted) =>
          IF lexer.eof_token # None
          THEN /\ lexer'.tokens =
                     Append(lexer.tokens, TokenFrom(lexer.eof_token[1]))
               /\ item' = ItemOk(Some(TokenFrom(lexer.eof_token[1])))
          ELSE /\ lexer'.tokens = lexer.tokens
               /\ item' = None
    /\ (output' # None /\ output'[1].ok) =>
          /\ output'[1].tokens = lexer'.tokens
          /\ IF lexer.eof_token # None
             THEN /\ lexer'.tokens # <<>>
                  /\ lexer'.tokens[Len(lexer'.tokens)]
                         = TokenFrom(lexer.eof_token[1])
             ELSE \A i \in (Len(lexer.tokens) + 1)..Len(lexer'.tokens) :
                      lexer'.tokens[i].token.kind # "Eof"

(* C16: when the grapheme stream is exhausted and an end-of-stream token   *)
(* value was configured, the lexer appends exactly one EOF token with an   *)
(* empty Span as the last element of the output; further calls of next or  *)
(* tokenize append no second one; with no configured value nothing is      *)
(* appended.                                                               *)
C16_EofAppendedOnce == [](C16_AtMostOneEof) /\ [][C16_EofStep]_vars

(* The EOF token was appended after another token, and a further call of   *)
(* next returned None.                                                     *)
C16_Witness ==
    /\ EofTokens # {}
    /\ Len(lexer.tokens) >= 2
    /\ item = None
    /\ output = None

(* C17: when the token value a tokenizer produced reports should_skip (the *)
(* Whitespace token), next yields Ok(None) and the token vector is left as *)
(* it was, but the graphemes consumed for it stay consumed: the following  *)
(* token start is the grapheme after the last one consumed.                *)
C17_SkippedTokenStaysConsumed ==
    [][(/\ output' = None
        /\ start' # None
        /\ start'[1].selected # 0
        /\ lexer.creation_funcs[start'[1].selected] = "Whitespace")
       => /\ item' = ItemOk(None)
          /\ lexer'.tokens = lexer.tokens
          /\ lexer'.incoming.count > start'[1].location.index
          /\ lexer'.incoming.count > lexer.incoming.count
          /\ lexer'.incoming.peek_index = 0
          /\ LET n == LexerNext(lexer')
             IN  n.start # None =>
                   /\ n.start[1].location.index = lexer'.incoming.count
                   /\ ~IsWhitespace(n.start[1].grapheme)]_vars

(* A skipped token consumed two graphemes and a token start follows it.    *)
C17_Witness ==
    /\ output = None
    /\ start # None
    /\ item = ItemOk(None)
    /\ lexer.incoming.count >= start[1].location.index + 2
    /\ LexerNext(lexer).start # None

(* The grapheme index a LexError carries: only OtherIndexed holds one.     *)
ErrorIndex(error) ==
    IF error.kind = "OtherIndexed" THEN Some(error.index) ELSE None

(* The last call of next found no tokenizer for the grapheme it read.      *)
Unclaimed == start # None /\ start[1].selected = 0

(* C18: if no registered tokenizer accepts the current grapheme, next      *)
(* returns an error that identifies the unclaimed grapheme and its         *)
(* location, and tokenize returns that error.                              *)
C18_UnclaimedErrorHasLocation ==
    Unclaimed
    => /\ item # None
       /\ ~item[1].ok
       /\ item[1].error.kind \in {"Other", "OtherIndexed"}
       /\ item[1].error.error[2] = start[1].grapheme
       /\ ErrorIndex(item[1].error) = Some(start[1].location.index)

(* The last call of next returned the grapheme stream's decode error.      *)
DecodeError == item # None /\ ~item[1].ok /\ start = None

(* C19: when the grapheme stream yields a decode error (strict mode), the  *)
(* error the lexer returns carries the grapheme index at which decoding    *)
(* failed.                                                                 *)
C19_DecodeErrorHasIndex ==
    DecodeError
    => ErrorIndex(item[1].error) = Some(lexer.incoming.count)

(* The lexer before the first call of next, in a run of calls, that does   *)
(* not return Some(Ok(_)).                                                 *)
RECURSIVE FirstStop(_)
FirstStop(self) ==
    Bind(LexerNext(self), LAMBDA n :
        IF n.ret # None /\ n.ret[1].ok THEN FirstStop(n.self) ELSE self)

(* What a call of next returned is the error of the selected tokenizer's   *)
(* lex.                                                                    *)
LexFailure(n) ==
    /\ n.start # None
    /\ n.start[1].selected # 0
    /\ n.ret # None
    /\ ~n.ret[1].ok

(* C20: if the selected tokenizer's lex returns an error, tokenize returns *)
(* that same error at once: no token is appended for that token start, no  *)
(* later grapheme is tokenized and the EOF token is not appended.          *)
C20_TokenizerErrorIsFatal ==
    [][output' # None
       => Bind(FirstStop(lexer), LAMBDA s :
          Bind(LexerNext(s), LAMBDA n :
             LexFailure(n)
             => /\ output'[1] = [ok |-> FALSE, error |-> n.ret[1].error]
                /\ lexer'.tokens = s.tokens
                /\ lexer'.eof_token = lexer.eof_token
                /\ lexer'.incoming.count = n.self.incoming.count
                /\ lexer' = n.self))]_vars

(* tokenize appended a token, then returned UnexpectedEndOfStream for an   *)
(* unclosed string and left the configured EOF token unappended.           *)
C20_Witness ==
    /\ output # None
    /\ ~output[1].ok
    /\ output[1].error.kind = "UnexpectedEndOfStream"
    /\ lexer.tokens # <<>>
    /\ lexer.eof_token # None

(***************************************************************************)
(* Properties of the grapheme stream                                       *)
(***************************************************************************)
(* The graphemes next returned, Ok results only, in call order. *)
Successful(rs) == SelectSeq(rs, LAMBDA r : r.ok)

(* C21: for any interleaving of next, peek and reset_peek the location     *)
(* returned by the k-th successful next has index k-1, and current_index() *)
(* is the index of the last grapheme next returned.                        *)
C21_IndexCountsSuccessfulNext ==
    LET rs == Successful(returned)
    IN  /\ \A k \in 1..Len(rs) : rs[k].location.index = k - 1
        /\ rs # <<>> => current_index(stream) = rs[Len(rs)].location.index
        /\ grapheme_count(stream) = Len(rs)

(* Two graphemes were returned and a later one is peeked.                  *)
C21_Witness ==
    /\ op = "peek"
    /\ Len(Successful(returned)) >= 2
    /\ stream.peek_index >= 1

(* The location bookkeeping a caller can read from the stream. *)
Bookkeeping(self) ==
    <<current_index(self), grapheme_count(self), current_line(self),
      current_column(self), current_byte_index(self), self.lines>>

(* C22: peek and reset_peek leave current_index, grapheme_count,           *)
(* current_line, current_column, current_byte_index and the line texts     *)
(* unchanged.                                                              *)
C22_PeekLeavesBookkeeping ==
    [][op' \in {"peek", "reset_peek"}
       => Bookkeeping(stream') = Bookkeeping(stream)]_vars

(* A second grapheme was peeked after one was returned by next.            *)
C22_Witness ==
    /\ op = "peek"
    /\ stream.peek_index >= 2
    /\ returned # <<>>

(* The number of newline graphemes among the first k-1 returned. *)
NewlinesBefore(rs, k) ==
    Cardinality({j \in 1..(k - 1) : IsNewline(rs[j].grapheme)})

(* C23: lines and columns are zero-based, and the non-newline grapheme     *)
(* returned right after a newline grapheme is located on the following     *)
(* line at column 0.                                                       *)
C23_ColumnZeroAfterNewline ==
    LET rs == Successful(returned)
    IN  \A k \in 1..Len(rs) :
           ~IsNewline(rs[k].grapheme)
           => /\ rs[k].location.line = NewlinesBefore(rs, k)
              /\ k = 1 => rs[k].location.column = 0
              /\ (k > 1 /\ IsNewline(rs[k - 1].grapheme))
                    => rs[k].location.column = 0

(* Every result next returns from here on, and the stream after them. *)
RECURSIVE Drain(_)
Drain(self) ==
    Bind(GraphemesNext(self), LAMBDA n :
        IF n.ret = None THEN [items |-> <<>>, self |-> n.self]
        ELSE Bind(Drain(n.self), LAMBDA d :
                 [items |-> n.ret \o d.items, self |-> d.self]))

(* The reader yields successful decodes only. *)
ValidInput == \A i \in 1..Len(origin.incoming) : origin.incoming[i].ok

(* C27: on an input of successful decodes only, the stream returns from    *)
(* next the graphemes and locations that a stream created on the same      *)
(* input with the other lossy setting returns, and invalid_bytes() is 0 in *)
(* both.                                                                   *)
C27_LossyEqualsStrictOnValidInput ==
    ValidInput
    => LET other == Drain(GraphemesNew(origin.incoming, ~origin.is_lossy,
                                       origin.void))
           rest  == Drain(stream)
       IN  /\ returned \o rest.items = other.items
           /\ invalid_bytes(stream) = 0
           /\ invalid_bytes(rest.self) = 0
           /\ invalid_bytes(other.self) = 0

(* A strict stream returned the graphemes of a valid three-char input.     *)
C27_Witness ==
    /\ ValidInput
    /\ ~origin.is_lossy
    /\ Len(origin.incoming) = 3
    /\ Len(returned) >= 2
    /\ Drain(stream).items = <<>>

(* The total length of the byte runs that failed to decode. *)
RECURSIVE SumFailed(_)
SumFailed(incoming) ==
    IF incoming = <<>> THEN 0
    ELSE (IF Head(incoming).ok THEN 0 ELSE Len(Head(incoming).bytes))
             + SumFailed(Tail(incoming))

FailedDecodes(incoming) ==
    Cardinality({i \in 1..Len(incoming) : ~incoming[i].ok})

(* The chars of the graphemes of a sequence of Ok results. *)
RECURSIVE Text(_)
Text(items) ==
    IF items = <<>> THEN <<>> ELSE Head(items).grapheme \o Text(Tail(items))

(* C28: in lossy mode, once the input is fully consumed, invalid_bytes()   *)
(* is the total number of source bytes of the failed decodes, and each     *)
(* failed decode came out as a replacement character, none as an error.    *)
C28_LossyCountsInvalidBytes ==
    (origin.is_lossy /\ stream.iter.chars.incoming = <<>>)
    => /\ invalid_bytes(stream) = SumFailed(origin.incoming)
       /\ LET all == returned \o Drain(stream).items
          IN  /\ \A i \in 1..Len(all) : all[i].ok
              /\ Len(SelectSeq(Text(all), LAMBDA c : c = "FFFD"))
                     = FailedDecodes(origin.incoming)

(* A lossy stream consumed an input with a two-byte and a one-byte         *)
(* invalid run.                                                            *)
C28_Witness ==
    /\ origin.is_lossy
    /\ stream.iter.chars.incoming = <<>>
    /\ FailedDecodes(origin.incoming) = 2
    /\ SumFailed(origin.incoming) = 3
    /\ op = "next"
    /\ Len(returned) >= 2

(***************************************************************************)
(* Properties of the spans                                                 *)
(***************************************************************************)
(* The located graphemes of the source, as a stream over it returns them. *)
SourceGraphemes == Drain(stream).items

(* The tokens pushed with a span (Token::new), not the EOF token. *)
Spanned ==
    {lexer.tokens[i] : i \in {j \in 1..Len(lexer.tokens) :
                                 lexer.tokens[j].span.grapheme_range # None}}

(* The locations of the first and of the last grapheme a token consumed. *)
TokenFirst(t) == SourceGraphemes[t.span.grapheme_range[1][1] + 1].location
TokenLast(t) == SourceGraphemes[t.span.grapheme_range[1][2] + 1].location

(* The largest column of a grapheme located on line l. *)
LastColumn(l) ==
    LET C == {SourceGraphemes[k].location.column :
                 k \in {j \in 1..Len(SourceGraphemes) :
                           SourceGraphemes[j].location.line = l}}
    IN  CHOOSE c \in C : \A d \in C : d <= c

(* C24: a token whose first and last consumed graphemes are on the same    *)
(* line has a Span of exactly one Line, with that line's index and the     *)
(* column range from the token's start column to its end column.           *)
C24_SingleLineSpan ==
    \A t \in Spanned :
        TokenFirst(t).line = TokenLast(t).line
        => t.span.lines = <<Line(TokenFirst(t).line,
                                 <<TokenFirst(t).column, TokenLast(t).column>>)>>

(* A token of several graphemes that starts after column 0.                *)
C24_Witness ==
    \E t \in Spanned :
        /\ TokenFirst(t).line = TokenLast(t).line
        /\ TokenFirst(t).column >= 1
        /\ TokenLast(t).column > TokenFirst(t).column

(* C25: a token that spans K > 1 lines has a Span of exactly K Lines with  *)
(* consecutive line indices from the start line to the end line, and the   *)
(* final Line's column range is 0 through the token's end column.          *)
C25_MultiLineSpan ==
    \A t \in Spanned :
        TokenFirst(t).line < TokenLast(t).line
        => LET K == TokenLast(t).line - TokenFirst(t).line + 1
           IN  /\ Len(t.span.lines) = K
               /\ \A k \in 1..Len(t.span.lines) :
                      t.span.lines[k].index = TokenFirst(t).line + k - 1
               /\ t.span.lines[Len(t.span.lines)].range
                      = <<0, TokenLast(t).column>>

(* A token over three lines.                                               *)
C25_Witness ==
    \E t \in Spanned : TokenLast(t).line - TokenFirst(t).line >= 2

(* C26: for a token that spans more than one line the first Line's column  *)
(* range starts at the token's start column and ends at the last grapheme  *)
(* column of that line, and every intermediate Line covers column 0        *)
(* through the last grapheme of its line.                                  *)
C26_FirstAndIntermediateLines ==
    \A t \in Spanned :
        TokenFirst(t).line < TokenLast(t).line
        => /\ t.span.lines[1].range
                 = <<TokenFirst(t).column, LastColumn(TokenFirst(t).line)>>
           /\ \A k \in 2..(Len(t.span.lines) - 1) :
                  t.span.lines[k].range
                      = <<0, LastColumn(t.span.lines[k].index)>>

(***************************************************************************)
(* Properties of the token ranges                                          *)
(***************************************************************************)
(* The grapheme ranges of the tokens pushed with a span, in vector order. *)
GraphemeRanges ==
    LET ts == SelectSeq(lexer.tokens, LAMBDA t : t.span.grapheme_range # None)
    IN  [i \in 1..Len(ts) |-> ts[i].span.grapheme_range[1]]

(* C29: along the token vector, the EOF token aside, the starts of the     *)
(* grapheme ranges are strictly increasing and the grapheme ranges of two  *)
(* different tokens never overlap.                                         *)
C29_TokensInSourceOrder ==
    /\ \A i \in 1..Len(GraphemeRanges) :
           GraphemeRanges[i][1] <= GraphemeRanges[i][2]
    /\ \A i, j \in 1..Len(GraphemeRanges) :
           i < j => /\ GraphemeRanges[i][1] < GraphemeRanges[j][1]
                    /\ GraphemeRanges[i][2] < GraphemeRanges[j][1]

(* Two tokens were pushed, one of them of several graphemes.               *)
C29_Witness ==
    /\ Len(GraphemeRanges) >= 2
    /\ \E i \in 1..Len(GraphemeRanges) :
           GraphemeRanges[i][1] < GraphemeRanges[i][2]

(* Lexer::bytes *)
LexerBytes(self) == self.incoming.iter.chars.accumulator.bytes

(* tokenize returned Ok on a lexer that stores the bytes it reads. *)
TokenizedWithBytes ==
    /\ output # None
    /\ output[1].ok
    /\ ~lexer.incoming.iter.chars.accumulator.void

(* C30: after a successful tokenize with store_bytes = true every token    *)
(* but the EOF token has a byte_range with start <= end inside bytes(),    *)
(* from the first byte of its first grapheme to the last byte of its last  *)
(* consumed grapheme.                                                      *)
C30_ByteRangeInsideBytes ==
    TokenizedWithBytes
    => \A t \in Spanned :
          /\ t.span.byte_range # None
          /\ LET b == t.span.byte_range[1][1]
                 e == t.span.byte_range[1][2]
                 f == Successful(SourceGraphemes)[t.span.grapheme_range[1][1] + 1]
                 l == Successful(SourceGraphemes)[t.span.grapheme_range[1][2] + 1]
             IN  /\ b <= e
                 /\ e < Len(LexerBytes(lexer))
                 /\ b = f.location.byte_range[1]
                 /\ e = l.location.byte_range[2]
                 /\ LexerBytes(lexer)[b + 1] = <<f.grapheme[1], 1>>
                 /\ LexerBytes(lexer)[e + 1]
                        = <<l.grapheme[Len(l.grapheme)],
                            Utf8Len(l.grapheme[Len(l.grapheme)])>>

(* A token of several bytes that does not start the source was emitted.    *)
C30_Witness ==
    /\ TokenizedWithBytes
    /\ \E t \in Spanned :
          /\ t.span.byte_range[1][1] > 0
          /\ t.span.byte_range[1][2] > t.span.byte_range[1][1]

(***************************************************************************)
(* Further properties of the parsers and of TokenIter                      *)
(***************************************************************************)
(* C37: TreeBuilder::parse returns Ok exactly when the root parser         *)
(* returned Ok and the iterator is empty afterwards; when the root parser  *)
(* returns Err and tokens remain, the error is "Unhandled Tokens!", and    *)
(* the root parser's own error is returned only when no tokens remain.     *)
C37_TreeBuilderResult ==
    Built
    => LET root == Run(P, before)
       IN  /\ R.ok <=> (root.ok /\ root.tokens.tokens = <<>>)
           /\ R.ok => R.node = root.node
           /\ (~root.ok /\ root.tokens.tokens # <<>>)
                 => (~R.ok /\ R.err = "Unhandled Tokens!")
           /\ (~root.ok /\ root.tokens.tokens = <<>>)
                 => (~R.ok /\ R.err = root.err)
           /\ (~R.ok /\ R.err # "Unhandled Tokens!") => tokens.tokens = <<>>

(* The root parser failed and left tokens in the iterator.                 *)
C37_Witness ==
    /\ Built
    /\ Fails(P, before)
    /\ tokens.tokens # <<>>
    /\ Run(P, before).err # "Unhandled Tokens!"

(* C38: repeated(element, separator?) over an element that consumes a      *)
(* token whenever it matches returns on every token iterator; the last     *)
(* parser it called failed, and the number of matched elements is at most  *)
(* the number of tokens the iterator held.                                 *)
C38_RepeatedIsBounded ==
    (/\ Done
     /\ P.k = "repeated"
     /\ \A i \in 1..Len(R.calls) :
           (R.calls[i].role = "element" /\ R.calls[i].ok)
           => Len(Run(P.element, R.calls[i].start).tokens.tokens)
                  < Len(R.calls[i].start.tokens))
    => /\ R.calls # <<>>
       /\ ~R.calls[Len(R.calls)].ok
       /\ Len(MatchedElements(R.calls)) <= Len(before.tokens)

(* Every token of a full iterator was matched as an element.               *)
C38_Witness ==
    /\ Done
    /\ P.k = "repeated"
    /\ P.separator = None
    /\ Len(before.tokens) = MaxTokens
    /\ Len(MatchedElements(R.calls)) = Len(before.tokens)

(* C39: flatten::<T> accepts an aggregate whose children are nodes of      *)
(* value type T or NoValue nodes: a NoValue child pushes nothing to the    *)
(* resulting vector and does not make flatten fail.                        *)
C39_FlattenAcceptsNoValueChildren ==
    (/\ Done
     /\ P.k = "flatten"
     /\ Succeeds(P.sequence, before)
     /\ \A i \in 1..Len(FlattenChildren) :
           FlattenChildren[i].ty \in {P.ty, "NoValue"})
    => /\ R.ok
       /\ R.node[1].value
              = Some(PresentValues(SelectSeq(FlattenChildren,
                                             LAMBDA c : c.ty = P.ty)))

(* C40: last_node() is the token most recently popped by next(), also      *)
(* after a next() on an exhausted iterator, and push_front(last_node())    *)
(* right after a successful next() restores the token queue.               *)
C40_LastNodeIsLastPopped ==
    [][(pc = "ready" /\ pc' = "ready")
       => /\ tokens.tokens # <<>>
                => /\ tokens'.last_node = Some(Head(tokens.tokens))
                   /\ push_front(tokens', tokens'.last_node[1]).tokens
                          = tokens.tokens
          /\ tokens.tokens = <<>> => tokens'.last_node = tokens.last_node]_vars

(***************************************************************************)
(* Further properties of the grapheme stream                               *)
(***************************************************************************)
(* What n consecutive calls of peek return. *)
RECURSIVE Peeks(_, _)
Peeks(self, n) ==
    IF n = 0 THEN <<>>
    ELSE Bind(peek(self), LAMBDA pk : <<pk.ret>> \o Peeks(pk.self, n - 1))

(* C32: after reset_peek() the k-th consecutive peek() returns the         *)
(* grapheme the k-th following next() returns, or None from the first      *)
(* decode error on; the results next() returns are those of a stream that  *)
(* is never peeked, whatever peek and reset_peek calls come in between, a  *)
(* decode error met while peeking included.                                *)
C32_PeekIsNonDestructive ==
    LET items == Drain(stream).items
        pks   == Peeks(reset_peek(stream), MaxStream + 1)
    IN  /\ returned \o items
               = Drain(GraphemesNew(origin.incoming, origin.is_lossy,
                                    origin.void)).items
        /\ \A k \in 1..Len(pks) :
               IF k <= Len(items) /\ \A j \in 1..k : items[j].ok
               THEN pks[k] # None /\ pks[k][1][1] = items[k].grapheme
               ELSE pks[k] = None

(* A decode error was met while peeking past a grapheme, after a next().   *)
C32_Witness ==
    /\ op = "peek"
    /\ returned # <<>>
    /\ stream.peek_index >= 1
    /\ \E i \in 1..Len(stream.queue) : ~stream.queue[i].ok

(* The decodes behind a sequence of results of next: the chars of every    *)
(* grapheme and the failed decode of every error.                          *)
RECURSIVE Unfold(_)
Unfold(items) ==
    IF items = <<>> THEN <<>>
    ELSE (IF Head(items).ok
          THEN [i \in 1..Len(Head(items).grapheme) |->
                   [ok |-> TRUE, character |-> Head(items).grapheme[i]]]
          ELSE <<Head(items).error.error>>) \o Unfold(Tail(items))

(* C33: in strict mode a decode failure met while chars are buffered comes *)
(* out right after the buffered cluster, and every decode failure is       *)
(* returned as an error exactly once, in input order, between the          *)
(* graphemes of the chars decoded before and after it.                     *)
C33_StrictErrorsOnceInOrder ==
    ~origin.is_lossy
    => Unfold(returned \o Drain(stream).items) = origin.incoming

(* A grapheme was returned and the decode error behind it on the next call *)
C33_Witness ==
    /\ ~origin.is_lossy
    /\ op = "next"
    /\ \E k \in 1..(Len(returned) - 1) :
           /\ returned[k].ok
           /\ ~returned[k + 1].ok
           /\ origin.incoming[k].ok
           /\ ~origin.incoming[k + 1].ok

(* C34: a grapheme's byte_range runs from the first byte of its first char *)
(* to the last byte of its last char, and without strict-mode errors the   *)
(* byte ranges of consecutively returned graphemes are adjacent: the first *)
(* starts at 0 and each next one at the previous end + 1.                  *)
C34_ByteRangesAdjacent ==
    (origin.is_lossy \/ ValidInput)
    => LET all == returned \o Drain(stream).items
       IN  \A k \in 1..Len(all) :
              LET g == all[k].grapheme
                  r == all[k].location.byte_range
                  n == Cardinality({q \in (1..Len(g)) \X (1..4) :
                                       q[2] <= Utf8Len(g[q[1]])})
              IN  /\ r[1] = IF k = 1 THEN 0
                            ELSE all[k - 1].location.byte_range[2] + 1
                  /\ r[2] = r[1] + n - 1

(* A grapheme of two chars was returned after another grapheme.            *)
C34_Witness ==
    /\ origin.is_lossy \/ ValidInput
    /\ \E k \in 2..Len(returned) :
           /\ Len(returned[k].grapheme) = 2
           /\ returned[k].location.byte_range[2]
                  > returned[k].location.byte_range[1] + 1

(* C36: the GraphemeLocation peek() returns for the first upcoming         *)
(* grapheme, right after reset_peek(), equals the one the following next() *)
(* returns for that grapheme in index, byte_range, line and column.        *)
C36_PeekLocationIsNextLocation ==
    LET pk == peek(reset_peek(stream))
        n  == GraphemesNext(stream)
    IN  pk.ret # None
        => /\ n.ret # None
           /\ n.ret[1].ok
           /\ n.ret[1].grapheme = pk.ret[1][1]
           /\ n.ret[1].location = pk.ret[1][2]

C35_SpanEndsAtLastConsumed ==
    [][(/\ start' # None
        /\ item' # None
        /\ item'[1].ok
        /\ item'[1].token # None)
       => LET t   == item'[1].token[1]
              src == Successful(SourceGraphemes)
              i   == lexer.incoming.count + 1
              j   == lexer'.incoming.count
          IN  /\ i <= j
              /\ j <= Len(src)
              /\ start'[1].grapheme = src[i].grapheme
              /\ start'[1].location = src[i].location
              /\ Text(SubSeq(src, i, j))
                     = IF t.token.kind = "DoubleQuotedString"
                       THEN <<"QUOTE">> \o t.token.value \o <<"QUOTE">>
                       ELSE t.token.value
              /\ t.span.grapheme_range = Some(<<i - 1, j - 1>>)
              /\ t.span.byte_range
                     = Some(<<src[i].location.byte_range[1],
                              src[j].location.byte_range[2]>>)
              /\ t.span.lines[Len(t.span.lines)].index = src[j].location.line
              /\ t.span.lines[Len(t.span.lines)].range[2]
                     = src[j].location.column]_vars

(* A token was emitted that started at a grapheme peeked during the token  *)
(* before it, while a further grapheme is peeked and not consumed.         *)
C35_Witness ==
    /\ item # None
    /\ item[1].ok
    /\ item[1].token # None
    /\ Len(lexer.tokens) >= 2
    /\ lexer.incoming.queue # <<>>

====
